---- MODULE Spec2Model ----
(***************************************************************************)
(* Model of the medical-monitor repository: the StateManager (load, save,  *)
(* update_employees), the MedicalMonitor check run with its classifier and *)
(* report cadence, and the triggers that start check runs (main.py and     *)
(* MonitorScheduler).                                                      *)
(*                                                                         *)
(* Specifications:                                                         *)
(*   Spec          check runs of the monitors under a wall clock           *)
(*   SpecStore     one StateManager exercised call by call                 *)
(*   SpecClassify  _classify_employees applied to bounded employee lists   *)
(*   SpecCadence   _should_send_daily_report evaluated once per minute     *)
(*   SpecSched     MonitorScheduler: start, stop, loop threads, job list   *)
(*   SpecIsolation two monitors under one scheduler that is started once   *)
(***************************************************************************)
EXTENDS Integers, Sequences, FiniteSets, TLC

VARIABLES
    clock,              \* the wall clock, what datetime.now() returns
    monitors,           \* the list of monitors main.py created
    config,             \* per monitor: its MonitorConfig
    employees,          \* per monitor: StateManager.employees
    state_file,         \* per monitor: the content of its state file
    last_daily_report,  \* per monitor: MedicalMonitor.last_daily_report
    pc,                 \* per monitor: "idle" or "fetching" (a run is in progress)
    frame,              \* per monitor: the locals of the run in progress
    main_pc,            \* main.py: index of the next startup check
    running,            \* MonitorScheduler.running
    daily_next,         \* per monitor: day of the next run of its daily_report job
    digests,            \* per monitor: digests sent so far on the current day
    threads,            \* the loop threads MonitorScheduler.start() has created
    jobs,               \* the job list of the schedule module
    calls,              \* operations started so far
    last_call           \* what the operation that returned in the last step did

vars == <<clock, monitors, config, employees, state_file, last_daily_report,
          pc, frame, main_pc, running, daily_next, digests, threads, jobs, calls,
          last_call>>

-----------------------------------------------------------------------------
(* Bounds *)

\* the wall clock runs over the days 0..MaxDay
MaxDay == 1
\* a day of the model has HoursPerDay hours (hour 0 is the midnight hour)
HoursPerDay == 2
\* an hour of the model has MinutesPerHour minutes
MinutesPerHour == 2
\* rows in one fetched worksheet snapshot
MaxRows == 1
\* operations (check runs, StateManager calls) started in one behaviour
MaxCalls == 2
\* entries in one list handed to update_employees or _classify_employees
MaxLen == 2

-----------------------------------------------------------------------------
(* Time: datetime.now() is the record [day, hour, minute]; .date() is day *)

\* Python None (last_daily_report before the first report, no job registered)
None == -1

\* the names a monitor of the configuration file can have
Monitors == {"m1", "m2"}

Times == [day : 0..MaxDay, hour : 0..(HoursPerDay - 1), minute : 0..(MinutesPerHour - 1)]

\* the order of two clock readings
Stamp(t) == (t.day * HoursPerDay + t.hour) * MinutesPerHour + t.minute

TimeLeq(a, b) == Stamp(a) <= Stamp(b)

LastTime == [day |-> MaxDay, hour |-> HoursPerDay - 1, minute |-> MinutesPerHour - 1]

NextMinute(t) ==
    IF t.minute + 1 < MinutesPerHour THEN [t EXCEPT !.minute = t.minute + 1]
    ELSE IF t.hour + 1 < HoursPerDay THEN [t EXCEPT !.hour = t.hour + 1, !.minute = 0]
    ELSE [day |-> t.day + 1, hour |-> 0, minute |-> 0]

-----------------------------------------------------------------------------
(* Sequence helpers *)

Range(s) == {s[i] : i \in DOMAIN s}

SeqsUpTo(S, n) == UNION {[1..k -> S] : k \in 0..n}

-----------------------------------------------------------------------------
(* EmployeeState and the employee dicts the normalizer produces *)

EmployeeFields == {"name", "position", "days_left", "has_medical_book",
                   "last_seen", "first_seen", "key"}

\* key = f"{name}_{days_left}_{has_medical_book}": the three parts joined by "_".
\* days_left prints as an integer and has_medical_book as True/False, so the
\* string determines the three parts; it is kept as the triple.
MakeKey(name, days_left, has_medical_book) == <<name, days_left, has_medical_book>>

from_employee_data(employee_data, now) ==
    [name             |-> employee_data.name,
     position         |-> employee_data.position,
     days_left        |-> employee_data.days_left,
     has_medical_book |-> employee_data.has_medical_book,
     last_seen        |-> now,
     first_seen       |-> now,
     key              |-> MakeKey(employee_data.name, employee_data.days_left,
                                  employee_data.has_medical_book)]

Emp(name, position, days_left, has_medical_book) ==
    [name |-> name, position |-> position, days_left |-> days_left,
     has_medical_book |-> has_medical_book]

EmpKey(e) == MakeKey(e.name, e.days_left, e.has_medical_book)

\* self.employees is a dict: a sequence of EmployeeState in insertion order,
\* at most one per key
Keys(emps) == {emps[i].key : i \in DOMAIN emps}

HasKey(emps, key) == \E i \in DOMAIN emps : emps[i].key = key

Lookup(emps, key) == emps[CHOOSE i \in DOMAIN emps : emps[i].key = key]

get_employee_count(emps) == Len(emps)

\* the keys of a list of employee dicts
InputKeys(list) == {EmpKey(e) : e \in Range(list)}

-----------------------------------------------------------------------------
(* StateManager.update_employees *)

\* mutant: a row whose key is already stored is reported as new again
UpdateStep_AlwaysNew(acc, emp_data, now) ==
    LET employee_state == from_employee_data(emp_data, now)
        key == employee_state.key
    IN [employees    |-> IF HasKey(acc.employees, key) THEN acc.employees
                         ELSE Append(acc.employees, employee_state),
        new          |-> Append(acc.new, key),
        current_keys |-> acc.current_keys \cup {key}]

\* mutant: the position of a stored employee follows the sheet
UpdateStep_OverwritesRole(acc, emp_data, now) ==
    LET employee_state == from_employee_data(emp_data, now)
        key == employee_state.key
    IN IF HasKey(acc.employees, key)
       THEN [acc EXCEPT
               !.employees = [i \in DOMAIN acc.employees |->
                   LET existing == acc.employees[i]
                   IN IF existing.key # key THEN existing
                      ELSE [existing EXCEPT
                              !.last_seen = employee_state.last_seen,
                              !.position =
                                  IF employee_state.position # ""
                                  THEN employee_state.position
                                  ELSE existing.position]],
               !.current_keys = acc.current_keys \cup {key}]
       ELSE [employees    |-> Append(acc.employees, employee_state),
             new          |-> Append(acc.new, key),
             current_keys |-> acc.current_keys \cup {key}]

\* the body of the for loop, for one emp_data; new holds the keys of the
\* objects appended to new_employees (the list shares them with the dict)
UpdateStep(acc, emp_data, now) ==
    LET employee_state == from_employee_data(emp_data, now)
        key == employee_state.key
    IN IF HasKey(acc.employees, key)
       THEN [acc EXCEPT
               !.employees = [i \in DOMAIN acc.employees |->
                   LET existing == acc.employees[i]
                   IN IF existing.key # key THEN existing
                      ELSE [existing EXCEPT
                              !.last_seen = employee_state.last_seen,
                              !.position =
                                  IF existing.position = "" /\ employee_state.position # ""
                                  THEN employee_state.position
                                  ELSE existing.position]],
               !.current_keys = acc.current_keys \cup {key}]
       ELSE [employees    |-> Append(acc.employees, employee_state),
             new          |-> Append(acc.new, key),
             current_keys |-> acc.current_keys \cup {key}]

RECURSIVE UpdateLoop(_, _, _)
UpdateLoop(acc, current_employees, now) ==
    IF current_employees = <<>> THEN acc
    ELSE UpdateLoop(UpdateStep(acc, Head(current_employees), now),
                    Tail(current_employees), now)

\* mutant: absent keys are never found
RemovedKeys_None(emps, current_keys) == {}

\* removed_keys = set(self.employees.keys()) - current_keys
RemovedKeys(emps, current_keys) == Keys(emps) \ current_keys

\* mutant: the absent employees are reported but stay in the store
DeleteKeys_Keep(emps, removed_keys) == emps

\* for key in removed_keys: del self.employees[key]
DeleteKeys(emps, removed_keys) == SelectSeq(emps, LAMBDA e : e.key \notin removed_keys)

\* returns the store left behind, new_employees (a list) and
\* removed_employees (built by iterating a set: kept as a set)
update_employees(emps, current_employees, now) ==
    LET acc == UpdateLoop([employees |-> emps, new |-> <<>>, current_keys |-> {}],
                          current_employees, now)
        removed_keys == RemovedKeys(acc.employees, acc.current_keys)
    IN [employees         |-> DeleteKeys(acc.employees, removed_keys),
        new_employees     |-> [i \in DOMAIN acc.new |-> Lookup(acc.employees, acc.new[i])],
        removed_employees |-> {Lookup(acc.employees, k) : k \in removed_keys}]

-----------------------------------------------------------------------------
(* The state file, StateManager.save and StateManager.load *)

\* datetime.isoformat(): the text of the timestamp, here its three numbers
isoformat(t) == <<t.day, t.hour, t.minute>>

\* datetime.fromisoformat(): raises ValueError on any other text
IsIsoText(s) == Len(s) = 3

\* mutant: only the date of the text is read back
fromisoformat_DateOnly(s) == [day |-> s[1], hour |-> 0, minute |-> 0]

fromisoformat(s) == [day |-> s[1], hour |-> s[2], minute |-> s[3]]

\* emp_dict = asdict(employee) with both timestamps converted to text
EmpDict(employee) ==
    [employee EXCEPT !.last_seen = isoformat(employee.last_seen),
                     !.first_seen = isoformat(employee.first_seen)]

\* state_data['employees']: one (key, emp_dict) item per employee, in dict order
EmployeesData(emps) == [i \in DOMAIN emps |-> [key |-> emps[i].key, data |-> EmpDict(emps[i])]]

FileMissing == [kind |-> "missing"]
\* a file json.load() cannot parse (empty, truncated, not JSON)
FileGarbage == [kind |-> "garbage"]
FileJson(items) == [kind |-> "json", employees |-> items]

\* save(): open(state_file, 'w') may raise before the file is touched; once it
\* is open the file is truncated, and a failing json.dump leaves a partial text
SaveOutcomes(emps, file) ==
    { [file |-> FileJson(EmployeesData(emps)), ok |-> TRUE],
      [file |-> file,                          ok |-> FALSE],
      [file |-> FileGarbage,                   ok |-> FALSE] }

\* lines 63-65 for one item: emp_data['last_seen'] (KeyError), fromisoformat
\* (ValueError) and EmployeeState(**emp_data) (TypeError) all raise
ItemLoads(item) ==
    /\ DOMAIN item.data = EmployeeFields
    /\ IsIsoText(item.data.last_seen)
    /\ IsIsoText(item.data.first_seen)

LoadItem(item) ==
    [item.data EXCEPT !.last_seen = fromisoformat(item.data.last_seen),
                      !.first_seen = fromisoformat(item.data.first_seen)]

\* self.employees[key] = EmployeeState(**emp_data)
DictSet(emps, key, value) ==
    IF HasKey(emps, key)
    THEN [i \in DOMAIN emps |-> IF emps[i].key = key THEN value ELSE emps[i]]
    ELSE Append(emps, value)

\* the for loop of load(): stops at the first item that raises
RECURSIVE LoadLoop(_, _)
LoadLoop(emps, items) ==
    IF items = <<>> THEN [employees |-> emps, ok |-> TRUE]
    ELSE IF ~ItemLoads(Head(items)) THEN [employees |-> emps, ok |-> FALSE]
    ELSE LoadLoop(DictSet(emps, Head(items).key, LoadItem(Head(items))), Tail(items))

\* load(): the store it leaves and the flag it returns
load(emps, file) ==
    IF file.kind = "missing" THEN [employees |-> emps, ok |-> FALSE]
    ELSE IF file.kind = "garbage" THEN [employees |-> emps, ok |-> FALSE]
    ELSE LoadLoop(<<>>, file.employees)

-----------------------------------------------------------------------------
(* GoogleSheetsClient as the monitor sees it *)

\* a fetched row: the canonical employee the three _extract_* calls yield for
\* it, or a row on which an extraction raises
Row(e) == [raises |-> FALSE, employee |-> e]

BadRow == [raises |-> TRUE, employee |-> Emp("", "", 0, FALSE)]

\* normalize_employee_data: a row that raises is skipped, the batch goes on
RECURSIVE normalize_employee_data(_)
normalize_employee_data(raw_data) ==
    IF raw_data = <<>> THEN <<>>
    ELSE IF Head(raw_data).raises THEN normalize_employee_data(Tail(raw_data))
    ELSE <<Head(raw_data).employee>> \o normalize_employee_data(Tail(raw_data))

-----------------------------------------------------------------------------
(* MedicalMonitor._classify_employees and _should_send_daily_report *)

CriticalDays == 30

\* mutant: the critical window ends a day early
ClassifyStep_Strict(acc, emp) ==
    IF ~emp.has_medical_book THEN [acc EXCEPT !.no_medical = Append(acc.no_medical, emp)]
    ELSE IF emp.days_left < 0 THEN [acc EXCEPT !.expired = Append(acc.expired, emp)]
    ELSE IF emp.days_left < CriticalDays THEN [acc EXCEPT !.critical = Append(acc.critical, emp)]
    ELSE acc

\* mutant: the days are looked at before the missing document
ClassifyStep_DaysFirst(acc, emp) ==
    IF emp.days_left < 0 THEN [acc EXCEPT !.expired = Append(acc.expired, emp)]
    ELSE IF ~emp.has_medical_book THEN [acc EXCEPT !.no_medical = Append(acc.no_medical, emp)]
    ELSE IF emp.days_left <= CriticalDays THEN [acc EXCEPT !.critical = Append(acc.critical, emp)]
    ELSE acc

ClassifyStep(acc, emp) ==
    IF ~emp.has_medical_book THEN [acc EXCEPT !.no_medical = Append(acc.no_medical, emp)]
    ELSE IF emp.days_left < 0 THEN [acc EXCEPT !.expired = Append(acc.expired, emp)]
    ELSE IF emp.days_left <= CriticalDays THEN [acc EXCEPT !.critical = Append(acc.critical, emp)]
    ELSE acc

RECURSIVE ClassifyLoop(_, _)
ClassifyLoop(acc, emps) ==
    IF emps = <<>> THEN acc ELSE ClassifyLoop(ClassifyStep(acc, Head(emps)), Tail(emps))

_classify_employees(emps) ==
    ClassifyLoop([expired |-> <<>>, critical |-> <<>>, no_medical |-> <<>>], emps)

\* mutant: the minute of the report time is not compared
_should_send_daily_report_HourOnly(last_report, current_time, current_date, report_time_obj) ==
    IF last_report = current_date THEN FALSE
    ELSE current_time.hour = report_time_obj.hour

\* current_time and current_date are the two clock readings of lines 260-261
_should_send_daily_report(last_report, current_time, current_date, report_time_obj) ==
    IF last_report = current_date THEN FALSE
    ELSE IF /\ current_time.hour = report_time_obj.hour
            /\ current_time.minute = report_time_obj.minute
         THEN TRUE
         ELSE FALSE

-----------------------------------------------------------------------------
(* MedicalMonitor.check_medical_records *)

\* step 6: the long new-employee list, nothing but a log line in hour 0, or
\* no notice when there is nothing new or the notices are switched off.
\* The log call of lines 213-216 is written with backslash-escaped quotes,
\* which Python rejects when it compiles monitor.py; it is read here as the
\* logging.info call it stands for, so that the module has a behaviour at all.
NewEmployeeNotice(cfg, new_employees, now) ==
    IF cfg.send_new_employee_notifications /\ new_employees # <<>>
    THEN IF now.hour = 0 THEN "logged" ELSE "list"
    ELSE "none"

\* mutant: a run with force_daily_report False asks the clock as None does
\* (defined next to the condition it replaces)
\*
\* step 7, the condition: force_daily_report is True, or it is None and
\* _should_send_daily_report() says so at the time at of the decision
DigestDue_FalseAsNone(force, last_report, at, cfg) ==
    \/ force = "True"
    \/ /\ force \in {"None", "False"}
       /\ _should_send_daily_report(last_report, at, at.day, cfg.report_time_obj)

DigestDue(force, last_report, at, cfg) ==
    \/ force = "True"
    \/ /\ force = "None"
       /\ _should_send_daily_report(last_report, at, at.day, cfg.report_time_obj)

\* mutant: the full report at any hour
DigestMessage_AlwaysReport(now) == "report"

\* step 7, the message: send_data_updated_message in hour 0 of the run's now,
\* _send_daily_report otherwise
DigestMessage(now) == IF now.hour = 0 THEN "refresh" ELSE "report"

\* mutant: only a fetch without rows ends the run early
NoData_RowsOnly(raw_data, current) ==
    IF raw_data = <<>> THEN "no_rows" ELSE "data"

\* the two early returns of lines 183-190: no rows fetched, no employee
\* normalized
NoData(raw_data, current) ==
    IF raw_data = <<>> THEN "no_rows"
    ELSE IF current = <<>> THEN "no_employees"
    ELSE "data"

\* mutant: a message that was not delivered ends the run
RunGoesOn_OnlyIfSent(send_ok) == send_ok

\* _send_new_employee_notification, _send_daily_report and
\* send_data_updated_message drop what send_message returns (lines 296, 352,
\* 363), and send_message catches what the request raises: the run goes on to
\* step 8 whether the messages were delivered (send_ok) or not
RunGoesOn(send_ok) == TRUE

\* what one run does from the fetch on; now was read when the run began, at is
\* the clock when the fetch has returned, send_ok what send_message returns in
\* this run.  saves: the run reaches step 8.
CheckRun(emps, last_report, cfg, force, now, at, raw_data, send_ok) ==
    LET current == normalize_employee_data(raw_data)
        due     == DigestDue(force, last_report, at, cfg)
        nodata  == NoData(raw_data, current)
        early(result) ==
            [result |-> result, employees |-> emps, last_daily_report |-> last_report,
             saves |-> FALSE, due |-> FALSE, digest |-> "none", notice |-> "none",
             new_employees |-> <<>>, removed_employees |-> {}]
    IN IF nodata # "data" THEN early(nodata)
       ELSE LET upd == CHOOSE u \in {update_employees(emps, current, at)} : TRUE
            IN
            [result            |-> "success",
             employees         |-> upd.employees,
             last_daily_report |-> IF due THEN now.day ELSE last_report,
             saves             |-> RunGoesOn(send_ok),
             due               |-> due,
             digest            |-> IF due THEN DigestMessage(now) ELSE "none",
             notice            |-> NewEmployeeNotice(cfg, upd.new_employees, now),
             new_employees     |-> upd.new_employees,
             removed_employees |-> upd.removed_employees]

-----------------------------------------------------------------------------
(* The universe the check runs draw from *)

EmpA == Emp("A", "", 5, TRUE)

EmpB == Emp("B", "dev", -999, FALSE)

MainRows == {Row(EmpA), Row(EmpB), BadRow}

\* what get_worksheet_data can return; <<>> also stands for a failed fetch
Snapshots == SeqsUpTo(MainRows, MaxRows)

ZeroTime == [day |-> 0, hour |-> 0, minute |-> 0]

TimesOfDay == [hour : 0..(HoursPerDay - 1), minute : 0..(MinutesPerHour - 1)]

\* MonitorConfig: report_time_obj and send_new_employee_notifications
Configs == [report_time_obj : TimesOfDay, send_new_employee_notifications : BOOLEAN]

\* the configurations of Spec: a report in the midnight hour or in the last
\* hour of the day, new-employee notices on or off
MainConfigs ==
    {c \in Configs : /\ c.report_time_obj.minute = 0
                     /\ c.report_time_obj.hour \in {0, HoursPerDay - 1}
                     /\ (c.report_time_obj.hour = 0 => c.send_new_employee_notifications)}

NoFrame == [now |-> ZeroTime, force |-> "False"]

NoCall == [op |-> "none"]

DefaultConfig == [report_time_obj |-> [hour |-> 0, minute |-> 0],
                  send_new_employee_notifications |-> TRUE]

\* the scheduler side of the state where only one component is exercised
Parked ==
    /\ clock = ZeroTime
    /\ monitors = <<"m1">>
    /\ pc = [m \in Monitors |-> "idle"]
    /\ frame = [m \in Monitors |-> NoFrame]
    /\ main_pc = 1
    /\ running = FALSE
    /\ daily_next = [m \in Monitors |-> None]
    /\ digests = [m \in Monitors |-> 0]
    /\ threads = <<>>
    /\ jobs = <<>>
    /\ calls = 0

TimeOfDay(t) == t.hour * MinutesPerHour + t.minute

\* schedule.every().day.at(report_time): the day of the next run as seen at t
NextDailyRun(t, report_time_obj) ==
    IF TimeOfDay(report_time_obj) > TimeOfDay(t) THEN t.day ELSE t.day + 1

-----------------------------------------------------------------------------
(* Actions of Spec *)

\* state after create_monitors: every StateManager is fresh and has loaded
\* (no state file yet); the process may start at any minute, which Tick gives
Init ==
    /\ Parked
    /\ \E c \in MainConfigs : config = [m \in Monitors |-> c]
    /\ state_file = [m \in Monitors |-> FileMissing]
    /\ employees = [m \in Monitors |-> load(<<>>, state_file[m]).employees]
    /\ last_daily_report = [m \in Monitors |-> None]
    /\ last_call = NoCall

\* a minute passes; digests counts the digests of the current day
Tick ==
    /\ clock # LastTime
    /\ clock' = NextMinute(clock)
    /\ digests' = IF clock'.day # clock.day THEN [m \in Monitors |-> 0] ELSE digests
    /\ last_call' = NoCall
    /\ UNCHANGED <<monitors, threads, jobs, config, employees, state_file, last_daily_report, pc, frame,
                   main_pc, running, daily_next, calls>>

\* check_medical_records up to the fetch: now = datetime.now().  A run of a
\* monitor begins when no other run of that monitor is in progress.
BeginCheck(m, force) ==
    /\ pc[m] = "idle"
    /\ calls < MaxCalls
    /\ calls' = calls + 1
    /\ pc' = [pc EXCEPT ![m] = "fetching"]
    /\ frame' = [frame EXCEPT ![m] = [now |-> clock, force |-> force]]
    /\ last_call' = NoCall

\* main.py: the startup check of the next monitor of the list
StartupCheck(m) ==
    /\ main_pc <= Len(monitors)
    /\ m = monitors[main_pc]
    /\ \A x \in Range(monitors) : pc[x] = "idle"
    /\ BeginCheck(m, "None")
    /\ main_pc' = main_pc + 1
    /\ UNCHANGED <<clock, monitors, threads, jobs, config, employees, state_file, last_daily_report,
                   running, daily_next, digests>>

\* MonitorScheduler.start(): registers the jobs and starts the loop.  Spec
\* has the one loop thread main.py starts: running and daily_next stand for
\* it and its job list here, threads and jobs spell them out in SpecSched
Start ==
    /\ main_pc = Len(monitors) + 1
    /\ \A x \in Range(monitors) : pc[x] = "idle"
    /\ ~running
    /\ running' = TRUE
    /\ daily_next' = [m \in Monitors |->
            IF m \in Range(monitors) THEN NextDailyRun(clock, config[m].report_time_obj)
            ELSE None]
    /\ last_call' = NoCall
    /\ UNCHANGED <<clock, monitors, threads, jobs, config, employees, state_file, last_daily_report, pc, frame,
                   main_pc, digests, calls>>

\* MonitorScheduler.run_immediate_check(monitor_index), on the scheduler that
\* main.py builds after the startup checks
RunImmediateCheck(m) ==
    /\ main_pc = Len(monitors) + 1
    /\ BeginCheck(m, "None")
    /\ UNCHANGED <<clock, monitors, threads, jobs, config, employees, state_file, last_daily_report,
                   main_pc, running, daily_next, digests>>

\* the loop runs the daily_report job of m: it is due from the report time of
\* its day on, and its next run is the next report time after this one
RunDailyReport(m) ==
    /\ running
    /\ daily_next[m] # None
    /\ \/ daily_next[m] < clock.day
       \/ /\ daily_next[m] = clock.day
          /\ TimeOfDay(clock) >= TimeOfDay(config[m].report_time_obj)
    /\ BeginCheck(m, "True")
    /\ daily_next' = [daily_next EXCEPT ![m] = NextDailyRun(clock, config[m].report_time_obj)]
    /\ UNCHANGED <<clock, monitors, threads, jobs, config, employees, state_file, last_daily_report,
                   main_pc, running, digests>>

\* the loop runs the regular_check job of m
RunMonitorCheck(m) ==
    /\ running
    /\ BeginCheck(m, "False")
    /\ UNCHANGED <<clock, monitors, threads, jobs, config, employees, state_file, last_daily_report,
                   main_pc, running, daily_next, digests>>

\* digests saturates at 2
Inc(n) == IF n < 2 THEN n + 1 ELSE n

\* check_medical_records from the return of the fetch to its own return;
\* last_call tells what the run that has just returned did
FinishCheck(m) ==
    /\ pc[m] = "fetching"
    /\ \E raw_data \in Snapshots, send_ok \in BOOLEAN :
       \E run \in {CheckRun(employees[m], last_daily_report[m], config[m],
                            frame[m].force, frame[m].now, clock, raw_data, send_ok)} :
       \E out \in IF run.saves THEN SaveOutcomes(run.employees, state_file[m])
                  ELSE {[file |-> state_file[m], ok |-> FALSE]} :
            /\ employees' = [employees EXCEPT ![m] = run.employees]
            /\ last_daily_report' = [last_daily_report EXCEPT ![m] = run.last_daily_report]
            /\ digests' = [digests EXCEPT ![m] = IF run.digest # "none" THEN Inc(@) ELSE @]
            /\ state_file' = [state_file EXCEPT ![m] = out.file]
            /\ last_call' = [op |-> "check", monitor |-> m, force |-> frame[m].force,
                             hour |-> frame[m].now.hour,
                             result |-> run.result, due |-> run.due,
                             digest |-> run.digest, notice |-> run.notice,
                             added |-> Len(run.new_employees),
                             before_keys |-> Keys(employees[m]),
                             snapshot_keys |-> InputKeys(normalize_employee_data(raw_data)),
                             delivery |-> IF run.notice = "list" \/ run.digest # "none"
                                          THEN (IF send_ok THEN "sent" ELSE "failed")
                                          ELSE "none",
                             saved |-> IF ~run.saves THEN "skipped"
                                       ELSE IF out.ok THEN "ok" ELSE "failed"]
    /\ pc' = [pc EXCEPT ![m] = "idle"]
    /\ frame' = [frame EXCEPT ![m] = NoFrame]
    /\ UNCHANGED <<clock, monitors, threads, jobs, config, main_pc, running, daily_next, calls>>

Next ==
    \/ Tick
    \/ \E m \in Range(monitors) : StartupCheck(m)
    \/ Start
    \/ \E m \in Range(monitors) : RunImmediateCheck(m)
    \/ \E m \in Range(monitors) : RunDailyReport(m)
    \/ \E m \in Range(monitors) : RunMonitorCheck(m)
    \/ \E m \in Range(monitors) : FinishCheck(m)

Spec == Init /\ [][Next]_vars

-----------------------------------------------------------------------------
(* SpecStore: the StateManager of one monitor, called as a unit test calls it *)

\* A again with a role, the same identity key as EmpA
EmpARole == Emp("A", "dev", 5, TRUE)

\* A a day later: the same person under another identity key
EmpA4 == Emp("A", "", 4, TRUE)

\* the employees update_employees is called with
StoreEmps == {EmpA, EmpARole, EmpB}

\* the lists update_employees is called with
InputLists == SeqsUpTo(StoreEmps, MaxLen)

\* B stored with another role, the same identity key as EmpB
EmpBLead == Emp("B", "lead", -999, FALSE)

\* the stores a call may start from, as earlier calls at time zero left them
StoreChoices ==
    {update_employees(<<>>, cur, ZeroTime).employees :
        cur \in {<<>>, <<EmpA>>, <<EmpA4, EmpBLead>>}}

GoodItem(e) == [key |-> EmpKey(e), data |-> EmpDict(from_employee_data(e, ZeroTime))]

\* an item whose last_seen is no ISO timestamp
BadStampItem(e) == [GoodItem(e) EXCEPT !.data.last_seen = <<>>]

\* an item without its position field
MissingFieldItem(e) ==
    [key  |-> EmpKey(e),
     data |-> [f \in EmployeeFields \ {"position"} |-> GoodItem(e).data[f]]]

\* the state files load() may find
FileChoices ==
    {FileMissing, FileGarbage, FileJson(<<>>),
     FileJson(<<GoodItem(EmpA), GoodItem(EmpB)>>),
     FileJson(<<GoodItem(EmpA), BadStampItem(EmpB)>>),
     FileJson(<<MissingFieldItem(EmpA), GoodItem(EmpB)>>)}

InitStore ==
    /\ Parked
    /\ config = [m \in Monitors |-> DefaultConfig]
    /\ \E emps \in StoreChoices : employees = [m \in Monitors |-> emps]
    /\ \E file \in FileChoices : state_file = [m \in Monitors |-> file]
    /\ last_daily_report = [m \in Monitors |-> None]
    /\ last_call = NoCall

\* time passes between two calls (the calls are made within the first hour)
StoreTick ==
    /\ clock.day = 0 /\ clock.hour = 0
    /\ clock' = NextMinute(clock)
    /\ UNCHANGED <<monitors, threads, jobs, config, employees, state_file, last_daily_report, pc,
                   frame, main_pc, running, daily_next, digests, calls, last_call>>

\* state_manager.update_employees(current_employees); again: the call before
\* it was update_employees with the same list
CallUpdate(m) ==
    /\ calls < MaxCalls
    /\ calls' = calls + 1
    /\ \E current_employees \in InputLists :
       \E upd \in {update_employees(employees[m], current_employees, clock)} :
          /\ employees' = [employees EXCEPT ![m] = upd.employees]
          /\ last_call' = [op |-> "update", monitor |-> m, input |-> current_employees,
                           at |-> clock, before_keys |-> Keys(employees[m]),
                           added |-> upd.new_employees,
                           removed |-> upd.removed_employees,
                           again |-> /\ last_call.op = "update"
                                     /\ last_call.input = current_employees]
    /\ UNCHANGED <<clock, monitors, threads, jobs, config, state_file, last_daily_report, pc, frame,
                   main_pc, running, daily_next, digests>>

\* state_manager.load()
CallLoad(m) ==
    /\ calls < MaxCalls
    /\ calls' = calls + 1
    /\ \E res \in {load(employees[m], state_file[m])} :
          /\ employees' = [employees EXCEPT ![m] = res.employees]
          /\ last_call' = [op |-> "load", monitor |-> m, ok |-> res.ok]
    /\ UNCHANGED <<clock, monitors, threads, jobs, config, state_file, last_daily_report, pc, frame,
                   main_pc, running, daily_next, digests>>

\* state_manager.save()
CallSave(m) ==
    /\ calls < MaxCalls
    /\ calls' = calls + 1
    /\ \E out \in SaveOutcomes(employees[m], state_file[m]) :
          /\ state_file' = [state_file EXCEPT ![m] = out.file]
          /\ last_call' = [op |-> "save", monitor |-> m, ok |-> out.ok]
    /\ UNCHANGED <<clock, monitors, threads, jobs, config, employees, last_daily_report, pc, frame,
                   main_pc, running, daily_next, digests>>

NextStore ==
    \/ StoreTick
    \/ \E m \in Range(monitors) : CallUpdate(m)
    \/ \E m \in Range(monitors) : CallLoad(m)
    \/ \E m \in Range(monitors) : CallSave(m)

SpecStore == InitStore /\ [][NextStore]_vars

-----------------------------------------------------------------------------
(* SpecClassify: _classify_employees on bounded lists *)

DaysLeftValues == {-999, -1, 0, 30, 31}

ClassifyEmps == {Emp("A", "", d, h) : d \in DaysLeftValues, h \in BOOLEAN}

ClassifyLists == SeqsUpTo(ClassifyEmps, MaxLen)

InitClassify ==
    /\ Parked
    /\ config = [m \in Monitors |-> DefaultConfig]
    /\ last_daily_report = [m \in Monitors |-> None]
    /\ employees = [m \in Monitors |-> <<>>]
    /\ state_file = [m \in Monitors |-> FileMissing]
    /\ \E emps \in ClassifyLists : last_call = [op |-> "employees", employees |-> emps]

\* expired, critical, no_medical = self._classify_employees(employees); the
\* function only reads the list it is given
CallClassify ==
    /\ last_call.op = "employees"
    /\ \E res \in {_classify_employees(last_call.employees)} :
          last_call' = [op |-> "classify", input |-> last_call.employees,
                        employees |-> last_call.employees,
                        expired |-> res.expired, critical |-> res.critical,
                        no_medical |-> res.no_medical]
    /\ UNCHANGED <<clock, monitors, threads, jobs, config, employees, state_file, last_daily_report,
                   pc, frame, main_pc, running, daily_next, digests, calls>>

NextClassify == CallClassify

SpecClassify == InitClassify /\ [][NextClassify]_vars

-----------------------------------------------------------------------------
(* SpecCadence: a caller that asks _should_send_daily_report once per minute
   and, as line 227 does, sets last_daily_report when it answers true *)

InitCadence ==
    /\ Parked
    /\ \E c \in {x \in Configs : x.send_new_employee_notifications} :
          config = [m \in Monitors |-> c]
    /\ employees = [m \in Monitors |-> <<>>]
    /\ state_file = [m \in Monitors |-> FileMissing]
    /\ \E last \in {None, 0} :
          /\ last_daily_report = [m \in Monitors |-> last]
          /\ last_call = [op |-> "start", start |-> last]

\* the evaluation of the current minute; digests counts the true answers of
\* the current day
CadenceEval(m) ==
    /\ pc[m] = "idle"
    /\ clock.day <= MaxDay
    /\ \E due \in {_should_send_daily_report(last_daily_report[m], clock, clock.day,
                                            config[m].report_time_obj)} :
          /\ last_daily_report' = [last_daily_report EXCEPT ![m] = IF due THEN clock.day ELSE @]
          /\ digests' = [digests EXCEPT ![m] = IF due THEN Inc(@) ELSE @]
          /\ last_call' = [op |-> "is_due", monitor |-> m, due |-> due, at |-> clock,
                           last_report |-> last_daily_report[m],
                           start |-> last_call.start]
    /\ pc' = [pc EXCEPT ![m] = "evaluated"]
    /\ UNCHANGED <<clock, monitors, threads, jobs, config, employees, state_file, frame, main_pc,
                   running, daily_next, calls>>

\* the next minute begins
CadenceTick(m) ==
    /\ pc[m] = "evaluated"
    /\ clock' = NextMinute(clock)
    /\ digests' = IF clock'.day # clock.day THEN [x \in Monitors |-> 0] ELSE digests
    /\ pc' = [pc EXCEPT ![m] = "idle"]
    /\ UNCHANGED <<monitors, threads, jobs, config, employees, state_file, last_daily_report, frame,
                   main_pc, running, daily_next, calls, last_call>>

NextCadence ==
    \/ \E m \in Range(monitors) : CadenceEval(m)
    \/ \E m \in Range(monitors) : CadenceTick(m)

SpecCadence == InitCadence /\ [][NextCadence]_vars

-----------------------------------------------------------------------------
(* SpecSched: MonitorScheduler with its loop threads and the job list of the
   schedule module, after main.py has made its startup checks.  The clock of
   this specification stands still; what matters of time is which jobs have
   come due (JobDue) and which sleeps have ended (LoopWake). *)

\* loop threads that start() creates in one behaviour
MaxThreads == 2

\* start(), lines 29-36: the two jobs of one monitor; gen tells the start()
\* that registered them, due that next_run has passed
JobsOf(m, gen) ==
    <<[tag |-> "daily_report",  monitor |-> m, gen |-> gen, due |-> FALSE],
      [tag |-> "regular_check", monitor |-> m, gen |-> gen, due |-> FALSE]>>

\* the for loop of start() over self.monitors
RECURSIVE RegisterJobs(_, _, _)
RegisterJobs(list, ms, gen) ==
    IF ms = <<>> THEN list
    ELSE RegisterJobs(list \o JobsOf(Head(ms), gen), Tail(ms), gen)

\* a thread of _run_scheduler: at the while test ("loop"), in run_pending
\* ("pending"), in a job function ("job"), in time.sleep ("sleep") or ended
NewThread == [at |-> "loop", monitor |-> "", tag |-> "", gen |-> 0]

\* mutant: an error result ends the loop thread
AfterJob_ErrorEscapes(result) == IF result = "error" THEN "dead" ELSE "pending"

\* _run_daily_report and _run_monitor_check catch what the run raises and
\* only log an error result (lines 65-71, 75-81): run_pending goes on
AfterJob(result) == "pending"

\* the force_daily_report a job function passes (lines 67 and 77)
ForceOf(tag) == IF tag = "daily_report" THEN "True" ELSE "False"

\* check_medical_records as a job function calls it; raises: an exception
\* escapes the fetch and is caught at lines 238-240, the run returns
\* status 'error' and has changed nothing
JobRun(emps, last_report, cfg, tag, now, raw_data, send_ok, raises) ==
    IF raises
    THEN [result |-> "error", employees |-> emps, last_daily_report |-> last_report,
          saves |-> FALSE, due |-> FALSE, digest |-> "none", notice |-> "none",
          new_employees |-> <<>>, removed_employees |-> {}]
    ELSE CheckRun(emps, last_report, cfg, ForceOf(tag), now, now, raw_data, send_ok)

\* the snapshots the job runs of this specification fetch
SchedSnapshots == {<<>>, <<Row(EmpA)>>}

\* main.py has created the monitors ms and made their startup checks, which
\* found nobody or employee A
SchedInit(ms) ==
    /\ clock = ZeroTime
    /\ monitors = ms
    /\ config = [m \in Monitors |-> DefaultConfig]
    /\ \E emps \in {<<>>, update_employees(<<>>, <<EmpA>>, ZeroTime).employees} :
          /\ employees = [m \in Monitors |-> emps]
          /\ state_file = [m \in Monitors |->
                IF emps = <<>> THEN FileMissing ELSE FileJson(EmployeesData(emps))]
    /\ last_daily_report = [m \in Monitors |-> None]
    /\ pc = [m \in Monitors |-> "idle"]
    /\ frame = [m \in Monitors |-> NoFrame]
    /\ main_pc = Len(ms) + 1
    /\ running = FALSE
    /\ daily_next = [m \in Monitors |-> None]
    /\ digests = [m \in Monitors |-> 0]
    /\ threads = <<>>
    /\ jobs = <<>>
    /\ calls = 0
    /\ last_call = NoCall

InitSched == SchedInit(<<"m1">>)

\* MonitorScheduler.start(): nothing but a warning when running is set;
\* else it sets running, registers the jobs and starts a new loop thread
start ==
    /\ IF running
       THEN /\ last_call' = [op |-> "start", noop |-> TRUE]
            /\ UNCHANGED <<running, threads, jobs>>
       ELSE /\ Len(threads) < MaxThreads
            /\ running' = TRUE
            /\ jobs' = RegisterJobs(jobs, monitors, Len(threads) + 1)
            /\ threads' = Append(threads, NewThread)
            /\ last_call' = [op |-> "start", noop |-> FALSE]
    /\ UNCHANGED <<clock, monitors, config, employees, state_file, last_daily_report,
                   pc, frame, main_pc, daily_next, digests, calls>>

\* MonitorScheduler.stop(): clears running and the job list and waits up to
\* 5 seconds for the latest thread, which sleeps 60 seconds at a time and may
\* be in a job: stop() returns whether or not that thread has ended
stop ==
    /\ running' = FALSE
    /\ jobs' = <<>>
    /\ last_call' = [op |-> "stop"]
    /\ UNCHANGED <<clock, monitors, config, employees, state_file, last_daily_report,
                   pc, frame, main_pc, daily_next, digests, threads, calls>>

\* _run_scheduler, line 59: while self.running
LoopTest(t) ==
    /\ threads[t].at = "loop"
    /\ threads' = [threads EXCEPT ![t].at = IF running THEN "pending" ELSE "dead"]
    /\ last_call' = NoCall
    /\ UNCHANGED <<clock, monitors, config, employees, state_file, last_daily_report,
                   pc, frame, main_pc, running, daily_next, digests, jobs, calls>>

\* the next_run of a registered job passes
JobDue(j) ==
    /\ ~jobs[j].due
    /\ jobs' = [jobs EXCEPT ![j].due = TRUE]
    /\ last_call' = NoCall
    /\ UNCHANGED <<clock, monitors, config, employees, state_file, last_daily_report,
                   pc, frame, main_pc, running, daily_next, digests, threads, calls>>

\* schedule.run_pending(), line 60: the thread calls the function of a job
\* that is due; the job is rescheduled when its function has returned
LoopRunJob(t, j) ==
    /\ threads[t].at = "pending"
    /\ jobs[j].due
    /\ threads' = [threads EXCEPT ![t] = [at |-> "job", monitor |-> jobs[j].monitor,
                                          tag |-> jobs[j].tag, gen |-> jobs[j].gen]]
    /\ last_call' = NoCall
    /\ UNCHANGED <<clock, monitors, config, employees, state_file, last_daily_report,
                   pc, frame, main_pc, running, daily_next, digests, jobs, calls>>

\* the job function of thread t returns: the run has done its work, and the
\* job, when it is still the registered one, waits for its next time
LoopJobReturns(t) ==
    /\ threads[t].at = "job"
    /\ LET m == threads[t].monitor
       IN \E raw_data \in SchedSnapshots, send_ok \in BOOLEAN, raises \in BOOLEAN :
          \E run \in {JobRun(employees[m], last_daily_report[m], config[m],
                             threads[t].tag, clock, raw_data, send_ok, raises)} :
          \E out \in IF run.saves THEN SaveOutcomes(run.employees, state_file[m])
                     ELSE {[file |-> state_file[m], ok |-> FALSE]} :
             /\ employees' = [employees EXCEPT ![m] = run.employees]
             /\ last_daily_report' = [last_daily_report EXCEPT ![m] = run.last_daily_report]
             /\ state_file' = [state_file EXCEPT ![m] = out.file]
             /\ digests' = [digests EXCEPT ![m] = IF run.digest # "none" THEN Inc(@) ELSE @]
             /\ threads' = [threads EXCEPT ![t] = [NewThread EXCEPT !.at = AfterJob(run.result)]]
             /\ last_call' = [op |-> "job", monitor |-> m, thread |-> t,
                              tag |-> threads[t].tag, result |-> run.result]
    /\ jobs' = [j \in DOMAIN jobs |->
                  IF /\ jobs[j].monitor = threads[t].monitor
                     /\ jobs[j].tag = threads[t].tag
                     /\ jobs[j].gen = threads[t].gen
                  THEN [jobs[j] EXCEPT !.due = FALSE] ELSE jobs[j]]
    /\ UNCHANGED <<clock, monitors, config, pc, frame, main_pc, running, daily_next, calls>>

\* run_pending has no job left to run: time.sleep(60), line 61
LoopSleep(t) ==
    /\ threads[t].at = "pending"
    /\ \A j \in DOMAIN jobs : ~jobs[j].due
    /\ threads' = [threads EXCEPT ![t].at = "sleep"]
    /\ last_call' = NoCall
    /\ UNCHANGED <<clock, monitors, config, employees, state_file, last_daily_report,
                   pc, frame, main_pc, running, daily_next, digests, jobs, calls>>

\* the sleep ends
LoopWake(t) ==
    /\ threads[t].at = "sleep"
    /\ threads' = [threads EXCEPT ![t].at = "loop"]
    /\ last_call' = NoCall
    /\ UNCHANGED <<clock, monitors, config, employees, state_file, last_daily_report,
                   pc, frame, main_pc, running, daily_next, digests, jobs, calls>>

NextSched ==
    \/ start
    \/ stop
    \/ \E t \in DOMAIN threads : LoopTest(t)
    \/ \E j \in DOMAIN jobs : JobDue(j)
    \/ \E t \in DOMAIN threads, j \in DOMAIN jobs : LoopRunJob(t, j)
    \/ \E t \in DOMAIN threads : LoopJobReturns(t)
    \/ \E t \in DOMAIN threads : LoopSleep(t)
    \/ \E t \in DOMAIN threads : LoopWake(t)

SpecSched == InitSched /\ [][NextSched]_vars

-----------------------------------------------------------------------------
(* SpecIsolation: two monitors under one scheduler that main.py starts once *)

InitIsolation == SchedInit(<<"m1", "m2">>)

NextIsolation ==
    \/ start
    \/ \E t \in DOMAIN threads : LoopTest(t)
    \/ \E j \in DOMAIN jobs : JobDue(j)
    \/ \E t \in DOMAIN threads, j \in DOMAIN jobs : LoopRunJob(t, j)
    \/ \E t \in DOMAIN threads : LoopJobReturns(t)
    \/ \E t \in DOMAIN threads : LoopSleep(t)
    \/ \E t \in DOMAIN threads : LoopWake(t)

SpecIsolation == InitIsolation /\ [][NextIsolation]_vars

-----------------------------------------------------------------------------
(* Claims *)

RecordKeys(list) == {list[i].key : i \in DOMAIN list}

\* C1: for every monitor and every calendar day, at most one digest message
\* (the full daily digest or its midnight replacement) is emitted on that
\* day, whatever the sequence of startup, immediate, daily and periodic runs.
C1_AtMostOneDigestPerDay == \A m \in Monitors : digests[m] <= 1

\* C2: _should_send_daily_report answers true exactly when last_daily_report
\* differs from the current date and the current hour and minute equal the
\* report hour and minute; asked once per minute, with last_daily_report set
\* to today when it answers true, it answers true once in a day, at the
\* report minute (and not at all on a day that began with
\* last_daily_report = today).
C2_IsDueOncePerDay ==
    /\ last_call.op = "is_due" =>
          LET rt == config[last_call.monitor].report_time_obj
          IN last_call.due <=> /\ last_call.last_report # last_call.at.day
                               /\ last_call.at.hour = rt.hour
                               /\ last_call.at.minute = rt.minute
    /\ last_call.op \in {"start", "is_due"} =>
          \A m \in Range(monitors) :
             LET rt == TimeOfDay(config[m].report_time_obj)
                 asked == \/ rt < TimeOfDay(clock)
                          \/ rt = TimeOfDay(clock) /\ pc[m] = "evaluated"
                 reported_before == clock.day = 0 /\ last_call.start = 0
             IN digests[m] = IF asked /\ ~reported_before THEN 1 ELSE 0

\* the last minute of a whole day has been asked and the day saw one true
C2_Witness ==
    /\ last_call.op = "is_due"
    /\ clock = LastTime
    /\ \E m \in Range(monitors) :
          pc[m] = "evaluated" /\ digests[m] = 1 /\ last_daily_report[m] = MaxDay

\* C3: update_employees returns added with exactly the keys K \ S, removed
\* with exactly the keys S \ K and leaves the store with exactly the keys K,
\* for S the keys of the store before and K the keys of the list.
C3_DiffCorrect ==
    last_call.op = "update" =>
       LET S == last_call.before_keys
           K == InputKeys(last_call.input)
       IN /\ RecordKeys(last_call.added) = K \ S
          /\ Len(last_call.added) = Cardinality(K \ S)
          /\ {r.key : r \in last_call.removed} = S \ K
          /\ Cardinality(last_call.removed) = Cardinality(S \ K)
          /\ Keys(employees[last_call.monitor]) = K

\* store {A4, B}, list with the keys {B, A}: added = [A], removed = [A4]
C3_Witness ==
    /\ last_call.op = "update"
    /\ last_call.before_keys = {EmpKey(EmpA4), EmpKey(EmpB)}
    /\ InputKeys(last_call.input) = {EmpKey(EmpB), EmpKey(EmpA)}
    /\ RecordKeys(last_call.added) = {EmpKey(EmpA)}
    /\ {r.key : r \in last_call.removed} = {EmpKey(EmpA4)}

\* C4 as claimed: after every check run the keys of the store are the keys of
\* that run's snapshot, also when the snapshot has no rows or no employees.
C4_StoreIsSnapshot ==
    last_call.op = "check" =>
       Keys(employees[last_call.monitor]) = last_call.snapshot_keys

\* C4 as amended: after every check run that got at least one employee out of
\* its snapshot the keys of the store are the keys of that snapshot, the
\* absent entries being deleted in that same run; a run whose snapshot has no
\* rows or no employee leaves the store as it was.
C4_StoreIsSnapshotOfSuccess ==
    last_call.op = "check" =>
       IF last_call.result = "success"
       THEN Keys(employees[last_call.monitor]) = last_call.snapshot_keys
       ELSE /\ last_call.snapshot_keys = {}
            /\ Keys(employees[last_call.monitor]) = last_call.before_keys

\* a run has deleted an entry that its snapshot no longer has
C4_Witness ==
    /\ last_call.op = "check"
    /\ last_call.result = "success"
    /\ last_call.before_keys \ last_call.snapshot_keys # {}
    /\ Keys(employees[last_call.monitor]) = last_call.snapshot_keys

\* C5: update_employees called twice in a row with the same list returns
\* empty added and removed the second time and leaves the key set of the
\* store as the first call left it, also for a list with repeated keys.
C5_Idempotent ==
    (last_call.op = "update" /\ last_call.again) =>
       /\ last_call.added = <<>>
       /\ last_call.removed = {}
       /\ Keys(employees[last_call.monitor]) = last_call.before_keys

\* the second call of a pair whose list holds the same key twice
C5_Witness ==
    /\ last_call.op = "update"
    /\ last_call.again
    /\ Len(last_call.input) = 2
    /\ Cardinality(InputKeys(last_call.input)) = 1
    /\ last_call.added = <<>>

\* the bucket the first matching rule of the classifier gives an employee
RuleBucket(e) ==
    IF ~e.has_medical_book THEN "no_document"
    ELSE IF e.days_left < 0 THEN "expired"
    ELSE IF 0 <= e.days_left /\ e.days_left <= 30 THEN "critical"
    ELSE "none"

\* the buckets whose returned list holds e
Landed(e) ==
    {b \in {"no_document", "expired", "critical"} :
        e \in Range(CASE b = "no_document" -> last_call.no_medical
                      [] b = "expired"     -> last_call.expired
                      [] b = "critical"    -> last_call.critical)}

LandsIn(e, bucket) == Landed(e) = (IF bucket = "none" THEN {} ELSE {bucket})

\* C6: _classify_employees places every employee by the first matching rule
\* (no document, whatever the days; else days < 0: expired; else days <= 30:
\* critical; else none), each employee in at most one of the three lists, and
\* the list it was given is unchanged.
C6_FirstMatchingRule ==
    last_call.op = "classify" =>
       /\ last_call.no_medical =
             SelectSeq(last_call.input, LAMBDA e : RuleBucket(e) = "no_document")
       /\ last_call.expired =
             SelectSeq(last_call.input, LAMBDA e : RuleBucket(e) = "expired")
       /\ last_call.critical =
             SelectSeq(last_call.input, LAMBDA e : RuleBucket(e) = "critical")
       /\ \A e \in Range(last_call.input) : Cardinality(Landed(e)) <= 1
       /\ Len(last_call.no_medical) + Len(last_call.expired) + Len(last_call.critical)
             <= Len(last_call.input)
       /\ last_call.employees = last_call.input

\* an employee without a document and with days that would make it expired,
\* next to one that lands in no list
C6_Witness ==
    /\ last_call.op = "classify"
    /\ \E e \in Range(last_call.input) :
          ~e.has_medical_book /\ e.days_left < 0 /\ LandsIn(e, "no_document")
    /\ \E e \in Range(last_call.input) : LandsIn(e, "none")

\* C7 as claimed: with a document, 30 days is critical, 31 none, -1 expired
\* and 0 none.
C7_Boundaries ==
    last_call.op = "classify" =>
       \A e \in Range(last_call.input) :
          e.has_medical_book =>
             /\ e.days_left = 30 => LandsIn(e, "critical")
             /\ e.days_left = 31 => LandsIn(e, "none")
             /\ e.days_left = -1 => LandsIn(e, "expired")
             /\ e.days_left = 0  => LandsIn(e, "none")

\* C7 as amended: with a document, 30 days is critical, 31 none, -1 expired
\* and 0 critical.
C7_BoundariesZeroCritical ==
    last_call.op = "classify" =>
       \A e \in Range(last_call.input) :
          e.has_medical_book =>
             /\ e.days_left = 30 => LandsIn(e, "critical")
             /\ e.days_left = 31 => LandsIn(e, "none")
             /\ e.days_left = -1 => LandsIn(e, "expired")
             /\ e.days_left = 0  => LandsIn(e, "critical")

\* 0 days and 30 days, both with a document, classified in one call
C7_Witness ==
    /\ last_call.op = "classify"
    /\ \E e \in Range(last_call.input) :
          e.has_medical_book /\ e.days_left = 0 /\ LandsIn(e, "critical")
    /\ \E e \in Range(last_call.input) :
          e.has_medical_book /\ e.days_left = 30 /\ LandsIn(e, "critical")

C9_MidnightNewEmployees ==
    (/\ last_call.op = "check"
     /\ last_call.hour = 0
     /\ last_call.added > 0
     /\ config[last_call.monitor].send_new_employee_notifications) =>
       \/ last_call.notice = "refresh"
       \/ last_call.digest = "refresh"

\* C10: when load() fails the store is empty afterwards, never a part of the
\* file or what the store held before.
C10_FailedLoadEmpties ==
    (last_call.op = "load" /\ ~last_call.ok) =>
       employees[last_call.monitor] = <<>>

\* C11: save() is atomic for the state file: whatever a save does, the file
\* holds afterwards either what it held before or the complete new store,
\* never an empty or a partly written text.
C11_SaveAtomic ==
    [][\A m \in Monitors :
          state_file'[m] \in {state_file[m], FileJson(EmployeesData(employees[m]))}]_vars

\* C12: after a successful save(), load() on a fresh StateManager of the same
\* monitor succeeds and yields the store that was saved: the same keys in the
\* same order and for each key the same name, position, days_left,
\* has_medical_book, first_seen and last_seen.
C12_RoundTrip ==
    (last_call.op = "save" /\ last_call.ok) =>
       load(<<>>, state_file[last_call.monitor]) =
          [employees |-> employees[last_call.monitor], ok |-> TRUE]

\* a store of two employees, one of them seen again after a while, was saved
C12_Witness ==
    /\ last_call.op = "save"
    /\ last_call.ok
    /\ Len(employees[last_call.monitor]) = 2
    /\ \E e \in Range(employees[last_call.monitor]) :
          e.last_seen # e.first_seen /\ e.last_seen.minute # 0
    /\ load(<<>>, state_file[last_call.monitor]).employees = employees[last_call.monitor]

\* a run of monitor m returns in this step
Returns(m) == pc[m] = "fetching" /\ pc'[m] = "idle"

\* C14: a run whose fetch returns no rows, or whose rows yield no employee,
\* returns a no-data result and leaves the store, the state file and
\* last_daily_report as they were and sends nothing, also when it was called
\* with force_daily_report True.
C14_EmptyFetchSkips ==
    [][\A m \in Monitors :
          (Returns(m) /\ last_call'.snapshot_keys = {}) =>
             /\ last_call'.result \in {"no_rows", "no_employees"}
             /\ employees'[m] = employees[m]
             /\ state_file'[m] = state_file[m]
             /\ last_daily_report'[m] = last_daily_report[m]
             /\ last_call'.saved = "skipped"
             /\ last_call'.digest = "none"
             /\ last_call'.notice = "none"
             /\ last_call'.delivery = "none"
             /\ digests'[m] = digests[m]]_vars

\* a forced run found rows but no employee in them and kept the stored ones
C14_Witness ==
    /\ last_call.op = "check"
    /\ last_call.force = "True"
    /\ last_call.result = "no_employees"
    /\ last_call.before_keys # {}
    /\ Keys(employees[last_call.monitor]) = last_call.before_keys
    /\ last_call.digest = "none"

\* C15 as claimed: after every run that reaches the diff the state file holds
\* the store that run's update_employees produced, whether or not the
\* messages of the run were delivered.
C15_PersistsDiff ==
    (last_call.op = "check" /\ last_call.result = "success") =>
       state_file[last_call.monitor] =
          FileJson(EmployeesData(employees[last_call.monitor]))

\* C15 as amended: every run that reaches the diff calls save() after the
\* diff and the messages, whether or not the messages were delivered, and
\* when that save succeeds the state file holds the store that run's
\* update_employees produced; a run that does not reach the diff does not
\* save.
C15_PersistsDiffWhenSaved ==
    last_call.op = "check" =>
       IF last_call.result = "success"
       THEN /\ last_call.saved \in {"ok", "failed"}
            /\ Keys(employees[last_call.monitor]) = last_call.snapshot_keys
            /\ last_call.saved = "ok" =>
                  state_file[last_call.monitor] =
                     FileJson(EmployeesData(employees[last_call.monitor]))
       ELSE last_call.saved = "skipped"

\* a run whose message was not delivered has saved the store it produced
C15_Witness ==
    /\ last_call.op = "check"
    /\ last_call.result = "success"
    /\ last_call.delivery = "failed"
    /\ last_call.added > 0
    /\ last_call.saved = "ok"
    /\ state_file[last_call.monitor] =
          FileJson(EmployeesData(employees[last_call.monitor]))

\* C18: when a run has sent a digest or its midnight replacement,
\* last_daily_report is the date at which the run decided that the digest
\* was due (the clock of the step in which the run returns), also for a run
\* that began on the day before.
C18_ReportDateIsDecisionDate ==
    (last_call.op = "check" /\ last_call.digest # "none") =>
       last_daily_report[last_call.monitor] = clock.day

\* C19: a run with force_daily_report False sends neither the daily report
\* nor the refresh notice and leaves last_daily_report as it was, at every
\* minute of the day; it updates the store and calls save().
C19_PeriodicNeverReports ==
    [][\A m \in Monitors :
          (Returns(m) /\ frame[m].force = "False") =>
             /\ last_call'.digest = "none"
             /\ ~last_call'.due
             /\ digests'[m] = digests[m]
             /\ last_daily_report'[m] = last_daily_report[m]
             /\ last_call'.result = "success" =>
                   /\ Keys(employees'[m]) = last_call'.snapshot_keys
                   /\ last_call'.saved \in {"ok", "failed"}]_vars

\* a periodic check has run through in the report minute of a day without a
\* report and has added an employee
C19_Witness ==
    /\ last_call.op = "check"
    /\ last_call.force = "False"
    /\ last_call.result = "success"
    /\ last_call.added > 0
    /\ TimeOfDay(clock) = TimeOfDay(config[last_call.monitor].report_time_obj)
    /\ last_call.hour = clock.hour
    /\ last_daily_report[last_call.monitor] # clock.day
    /\ last_call.digest = "none"

\* the position the rows of the list give the key: that of the first row of
\* the key that has one, "" when none has
IncomingRole(list, key) ==
    LET rows == SelectSeq(list, LAMBDA e : EmpKey(e) = key /\ e.position # "")
    IN IF rows = <<>> THEN "" ELSE Head(rows).position

\* C17: for every key that is in the store before update_employees and in
\* the list, the call leaves name, days_left, has_medical_book and first_seen
\* of the entry as they were, sets last_seen to the time of the call (so
\* first_seen <= last_seen goes on holding), keeps a position that is not
\* empty and fills an empty one with the position the list gives.
C17_UpdateFrame ==
    [][\A m \in Monitors :
          (calls' = calls + 1 /\ last_call'.op = "update" /\ last_call'.monitor = m) =>
             \A i \in DOMAIN employees[m] :
                LET old == employees[m][i]
                IN old.key \in InputKeys(last_call'.input) =>
                      /\ HasKey(employees'[m], old.key)
                      /\ LET new == Lookup(employees'[m], old.key)
                         IN /\ new.name = old.name
                            /\ new.days_left = old.days_left
                            /\ new.has_medical_book = old.has_medical_book
                            /\ new.first_seen = old.first_seen
                            /\ new.key = old.key
                            /\ new.last_seen = clock
                            /\ TimeLeq(new.first_seen, new.last_seen)
                            /\ new.position =
                                  IF old.position # "" THEN old.position
                                  ELSE IncomingRole(last_call'.input, old.key)]_vars

\* A, stored without a position, was seen again a minute later in a list that
\* gives it first no position and then one
C17_Witness ==
    /\ last_call.op = "update"
    /\ last_call.input = <<EmpA, EmpARole>>
    /\ last_call.before_keys = {EmpKey(EmpA)}
    /\ last_call.added = <<>>
    /\ LET e == Lookup(employees[last_call.monitor], EmpKey(EmpA))
       IN /\ e.position = "dev"
          /\ e.first_seen = ZeroTime
          /\ e.last_seen = last_call.at
          /\ e.last_seen # e.first_seen

\* the check runs of monitor m in progress: that of main.py and those of the
\* loop threads
RunsInProgress(m) ==
    (IF pc[m] = "fetching" THEN 1 ELSE 0)
    + Cardinality({t \in DOMAIN threads :
                      threads[t].at = "job" /\ threads[t].monitor = m})

\* C13: for every monitor at most one check run is in progress at any time,
\* whatever the sequence of start() and stop() calls and of the jobs the loop
\* runs.
C13_OneRunAtATime == \A m \in Monitors : RunsInProgress(m) <= 1

\* a job of m returns in this step from thread t
JobReturns(t, m) ==
    /\ t \in DOMAIN threads
    /\ threads[t].at = "job"
    /\ threads[t].monitor = m
    /\ threads'[t].at # "job"

\* the registered jobs without their due flags
Registered(list) == [j \in DOMAIN list |-> [list[j] EXCEPT !.due = FALSE]]

\* C16: when a check run of one monitor returns, with whatever result, the
\* loop thread that ran it is back in run_pending, running and the registered
\* jobs of every monitor are as they were, and the store, the state file and
\* last_daily_report of every other monitor are untouched.
C16_FailureIsolation ==
    [][\A m \in Monitors : \A t \in 1..MaxThreads :
          JobReturns(t, m) =>
             /\ threads'[t].at = "pending"
             /\ \A u \in DOMAIN threads : u # t => threads'[u] = threads[u]
             /\ running' = running
             /\ Registered(jobs') = Registered(jobs)
             /\ \A x \in Monitors \ {m} :
                   /\ employees'[x] = employees[x]
                   /\ state_file'[x] = state_file[x]
                   /\ last_daily_report'[x] = last_daily_report[x]]_vars

\* a run of m1 has just ended with an exception; the loop is in run_pending
\* with jobs of m1 and m2 that are due, and the store of m2 is what the
\* startup check left
C16_Witness ==
    /\ last_call.op = "job"
    /\ last_call.monitor = "m1"
    /\ last_call.result = "error"
    /\ threads[last_call.thread].at = "pending"
    /\ running
    /\ \E j \in DOMAIN jobs : jobs[j].monitor = "m2" /\ jobs[j].due
    /\ \E j \in DOMAIN jobs : jobs[j].monitor = "m1" /\ jobs[j].due
    /\ Len(employees["m2"]) = 1
    /\ last_daily_report["m2"] = None

\* the loop threads that are past the while test: in run_pending or in a job
InLoopBody == {t \in DOMAIN threads : threads[t].at \in {"pending", "job"}}

\* the jobs registered for monitor m under a tag
JobsTagged(m, tag) == {j \in DOMAIN jobs : jobs[j].monitor = m /\ jobs[j].tag = tag}

\* C20: after any sequence of start() and stop() calls at most one loop
\* thread is at work in _run_scheduler and every monitor has at most one
\* daily_report job and at most one regular_check job registered.
C20_OneLoopThread ==
    /\ Cardinality(InLoopBody) <= 1
    /\ \A m \in Monitors :
          /\ Cardinality(JobsTagged(m, "daily_report")) <= 1
          /\ Cardinality(JobsTagged(m, "regular_check")) <= 1

====
